---- MODULE Spec2Model ----
(***************************************************************************)
(* Accessibility audit pipeline: URL parsing, axe result normalisation,    *)
(* cross-page aggregation, placeholder substitution and the three run      *)
(* loops (a11y_end_to_end.main, scans/selenium_runner.main, main.py).      *)
(*                                                                         *)
(* Python strings are sequences of tokens (single characters, or whole     *)
(* words where only word boundaries matter).  None is a sentinel.          *)
(***************************************************************************)
EXTENDS Integers, Sequences, FiniteSets, TLC

\* ------------------------------------------------------------------ bounds
MaxArgLen == 3
MaxJsonLen == 2
MaxFileLines == 2
MaxViolations == 2
MaxNodes == 2
MaxUrls == 2
MaxSegs == 2
MaxRuns == 3
MaxRecords == 2
MaxTags == 3

\* ------------------------------------------------------- strings and None
\* Python None where a label (impact, threshold) is expected
None == "<None>"
\* Python None where a string (a sequence of tokens) is expected
NoText == <<"<None>">>

Whitespace == {" ", "\n"}

Truthy(s) == s # NoText /\ s # <<>>

Range(s) == {s[i] : i \in 1..Len(s)}

SeqsUpTo(S, n) == UNION {[1..k -> S] : k \in 0..n}

\* F(e), with e evaluated once and F applied to its value
Bind(e, F(_)) == CHOOSE r \in {F(x) : x \in {e}} : TRUE

RECURSIVE Concat(_)
\* "".join(parts)
Concat(parts) ==
  IF parts = <<>> THEN <<>> ELSE Head(parts) \o Concat(Tail(parts))

RECURSIVE LStrip(_)
LStrip(s) ==
  IF s # <<>> /\ Head(s) \in Whitespace THEN LStrip(Tail(s)) ELSE s

RECURSIVE RStrip(_)
RStrip(s) ==
  IF s # <<>> /\ s[Len(s)] \in Whitespace
    THEN RStrip(SubSeq(s, 1, Len(s) - 1))
    ELSE s

\* str.strip()
Strip(s) == RStrip(LStrip(s))

RECURSIVE SplitOn(_, _)
\* str.split(c) for a one-character separator: "a,,b" -> ["a", "", "b"]
SplitOn(s, c) ==
  IF \A i \in 1..Len(s) : s[i] # c
    THEN <<s>>
    ELSE LET k == CHOOSE i \in 1..Len(s) :
                    s[i] = c /\ \A j \in 1..(i - 1) : s[j] # c
         IN <<SubSeq(s, 1, k - 1)>>
              \o Bind(SubSeq(s, k + 1, Len(s)), LAMBDA rest : SplitOn(rest, c))

RECURSIVE JoinWith(_, _)
\* sep.join(parts)
JoinWith(parts, sep) ==
  IF parts = <<>> THEN <<>>
  ELSE IF Len(parts) = 1 THEN parts[1]
  ELSE parts[1] \o sep \o JoinWith(Tail(parts), sep)

StartsWith(s, p) == Len(s) >= Len(p) /\ SubSeq(s, 1, Len(p)) = p

\* ------------------------------------------------------------- parse_urls
\* The value json.loads gives for --urls-json
JsonInvalid == [kind |-> "invalid", arr |-> <<>>]
JsonNotArray == [kind |-> "notarray", arr |-> <<>>]
JsonNone == [kind |-> "none", arr |-> <<>>]
JsonArray(a) == [kind |-> "array", arr |-> a]

RECURSIVE DedupeFrom(_, _)
DedupeFrom(urls, seen) ==
  IF urls = <<>> THEN <<>>
  ELSE IF Head(urls) \in seen THEN DedupeFrom(Tail(urls), seen)
  ELSE <<Head(urls)>> \o DedupeFrom(Tail(urls), seen \cup {Head(urls)})

DedupeDroppingFirst(urls) ==
  LET rev(s) == [i \in 1..Len(s) |-> s[Len(s) + 1 - i]]
  IN rev(DedupeFrom(rev(urls), {}))

\* lines 126-133: de-dupe, preserve order
Dedupe(urls) == DedupeFrom(urls, {})

\* lines 110-111
FromCommaList(urls_arg) ==
  IF Truthy(urls_arg)
    THEN LET parts == SplitOn(urls_arg, ",")
             stripped == [i \in 1..Len(parts) |-> Strip(parts[i])]
         IN SelectSeq(stripped, LAMBDA u : u # <<>>)
    ELSE <<>>

\* line 117
FromJsonArray(arr) ==
  LET stripped == [i \in 1..Len(arr) |-> Strip(arr[i])]
  IN SelectSeq(stripped, LAMBDA u : u # <<>>)

\* lines 120-125; file_lines is NoText when --file is not given
FromFile(file_lines) ==
  IF file_lines = NoText THEN <<>>
  ELSE LET stripped == [i \in 1..Len(file_lines) |-> Strip(file_lines[i])]
       IN SelectSeq(stripped, LAMBDA s : s # <<>> /\ ~StartsWith(s, <<"#">>))

parse_urls_lenient(urls_arg, urls_json, file_lines) ==
  [error |-> "none",
   urls |-> Dedupe(FromCommaList(urls_arg)
                   \o (IF urls_json.kind = "array"
                         THEN FromJsonArray(urls_json.arr) ELSE <<>>)
                   \o FromFile(file_lines))]

\* lines 108-133: the list, or the ValueError raised at 116 / 119
parse_urls(urls_arg, urls_json, file_lines) ==
  IF urls_json.kind \in {"invalid", "notarray"}
    THEN [error |-> "ValueError", urls |-> <<>>]
    ELSE [error |-> "none",
          urls |-> Dedupe(FromCommaList(urls_arg)
                          \o (IF urls_json.kind = "array"
                                THEN FromJsonArray(urls_json.arr) ELSE <<>>)
                          \o FromFile(file_lines))]

\* ------------------------------------------------------- impact threshold
\* line 36
IMPACT_ORDER == <<"minor", "moderate", "serious", "critical">>

\* list.index: the position, or 0 where Python raises ValueError
IndexOf(list, x) ==
  IF \E i \in 1..Len(list) : list[i] = x
    THEN CHOOSE i \in 1..Len(list) :
           list[i] = x /\ \A j \in 1..(i - 1) : list[j] # x
    ELSE 0

impact_strictly_above(impact, min_impact) ==
  IF min_impact = None \/ min_impact = "" THEN TRUE
  ELSE IF impact = None THEN FALSE
  ELSE IF IndexOf(IMPACT_ORDER, impact) = 0
            \/ IndexOf(IMPACT_ORDER, min_impact) = 0 THEN FALSE
  ELSE IndexOf(IMPACT_ORDER, impact) > IndexOf(IMPACT_ORDER, min_impact)

\* a missing or unknown impact let through the threshold
impact_unknown_passes(impact, min_impact) ==
  IF min_impact = None \/ min_impact = "" THEN TRUE
  ELSE IF IndexOf(IMPACT_ORDER, min_impact) = 0 THEN FALSE
  ELSE IF impact = None \/ IndexOf(IMPACT_ORDER, impact) = 0 THEN TRUE
  ELSE IndexOf(IMPACT_ORDER, impact) >= IndexOf(IMPACT_ORDER, min_impact)

\* lines 143-151
impact_at_least(impact, min_impact) ==
  IF min_impact = None \/ min_impact = "" THEN TRUE
  ELSE IF impact = None THEN FALSE
  ELSE IF IndexOf(IMPACT_ORDER, impact) = 0
            \/ IndexOf(IMPACT_ORDER, min_impact) = 0 THEN FALSE
  ELSE IndexOf(IMPACT_ORDER, impact) >= IndexOf(IMPACT_ORDER, min_impact)

\* ------------------------------------------------------------ normalizers
\* line 206: html.replace("\n", " ").strip()
CleanHtml(html) ==
  Strip([i \in 1..Len(html) |-> IF html[i] = "\n" THEN " " ELSE html[i]])

\* lines 187-196: the violation-level columns of a row
BaseRow(v, page_url, page_title) ==
  [page_url |-> page_url,
   page_title |-> IF Truthy(page_title) THEN page_title ELSE <<>>,
   violation_id |-> v.id,
   impact |-> IF v.impact = None THEN "" ELSE v.impact,
   help |-> v.help,
   help_url |-> v.helpUrl,
   description |-> v.description,
   tags |-> JoinWith(v.tags, <<";">>)]

\* line 199
EmptyNodeRow(base) ==
  [page_url |-> base.page_url, page_title |-> base.page_title,
   violation_id |-> base.violation_id, impact |-> base.impact,
   help |-> base.help, help_url |-> base.help_url,
   description |-> base.description, tags |-> base.tags,
   target |-> <<>>, failure_summary |-> <<>>, html |-> <<>>]

\* lines 202-207
NodeRow(base, node) ==
  [page_url |-> base.page_url, page_title |-> base.page_title,
   violation_id |-> base.violation_id, impact |-> base.impact,
   help |-> base.help, help_url |-> base.help_url,
   description |-> base.description, tags |-> base.tags,
   target |-> JoinWith(node.target, <<" ", "|", " ">>),
   failure_summary |-> node.failureSummary,
   html |-> CleanHtml(node.html)]

\* lines 187-207: the rows of one violation that passed the threshold
RowsOfViolation(v, page_url, page_title) ==
  IF v.nodes = <<>>
    THEN <<EmptyNodeRow(BaseRow(v, page_url, page_title))>>
    ELSE [i \in 1..Len(v.nodes) |->
            NodeRow(BaseRow(v, page_url, page_title), v.nodes[i])]

RECURSIVE axe_to_rows(_, _, _, _)
\* lines 181-208
axe_to_rows(violations, page_url, page_title, min_impact) ==
  IF violations = <<>> THEN <<>>
  ELSE LET v == Head(violations)
           rest == axe_to_rows(Tail(violations), page_url, page_title, min_impact)
       IN IF ~impact_at_least(v.impact, min_impact)
            THEN rest
            ELSE RowsOfViolation(v, page_url, page_title) \o rest

\* main.py 29-39, selenium_runner.py 21-31: one row of flatten_violations
FlatRow(v, node) ==
  [rule_id |-> v.id, description |-> v.description, help |-> v.help,
   helpUrl |-> v.helpUrl, impact |-> v.impact, tags |-> v.tags,
   target |-> JoinWith(node.target, <<" ">>),
   html |-> node.html, failureSummary |-> node.failureSummary]

RECURSIVE flatten_violations(_)
\* main.py 25-40
flatten_violations(violations) ==
  IF violations = <<>> THEN <<>>
  ELSE LET v == Head(violations)
       IN [i \in 1..Len(v.nodes) |-> FlatRow(v, v.nodes[i])]
          \o flatten_violations(Tail(violations))

\* selenium_runner.py 17-32: the same code as main.py 25-40
runner_flatten_violations(violations) == flatten_violations(violations)

\* ------------------------------------------------- sample scanner output
\* axe rule identifiers
Rules == {"r1", "r2"}

\* the impact a violation object may carry: the four labels, an unknown
\* label, or none
ImpactValues == {"minor", "moderate", "serious", "critical", "bogus", None}

\* --min-impact: not given, empty, one of the four labels, or another word
Thresholds == {None, "", "minor", "moderate", "serious", "critical", "bogus"}

\* the rule-level fields axe sends with a violation of a rule
RuleMeta(id) ==
  IF id = "r1"
    THEN [help |-> <<"h", "1">>, helpUrl |-> <<"u", "1">>,
          description |-> <<"d", "1">>,
          tags |-> << <<"wcag", "2", "a", "a">>, <<"wcag", "1", "4", "3">> >>]
    ELSE [help |-> <<"h", "2">>, helpUrl |-> <<"u", "2">>,
          description |-> <<"d", "2">>,
          tags |-> << <<"cat">> >>]

\* affected nodes as axe reports them
NodeAt(i) ==
  CASE i % 3 = 1 -> [target |-> << <<"p">> >>,
                     failureSummary |-> <<"fix", "1">>,
                     html |-> <<" ", "<p>", "\n", "<b>", " ">>]
    [] i % 3 = 2 -> [target |-> << <<"iframe">>, <<"a">> >>,
                     failureSummary |-> <<>>,
                     html |-> <<"<a>">>]
    [] OTHER -> [target |-> <<>>,
                 failureSummary |-> <<"fix", "3">>,
                 html |-> <<"\n">>]

Violation(id, impact, n) ==
  [id |-> id, impact |-> impact,
   help |-> RuleMeta(id).help, helpUrl |-> RuleMeta(id).helpUrl,
   description |-> RuleMeta(id).description, tags |-> RuleMeta(id).tags,
   nodes |-> [i \in 1..n |-> NodeAt(i)]]

Violations ==
  {Violation(id, impact, n) : id \in Rules, impact \in ImpactValues, n \in 0..MaxNodes}

\* driver.title of the page at url
PageTitle(url) == <<"T">> \o url

\* --------------------------------------------------------- sorting (sorted)
\* the tokens of the model in the order Python compares them (code points)
TokenOrder ==
  <<"\n", " ", "#", ",", ".", "0", "1", "2", "3", "4", "5", "6", "7", "8", "9",
    ";", "<a>", "<b>", "<p>", "Accessibility score:", "Bogus", "Critical",
    "Impact: ", "Minor", "Moderate",
    "Serious", "T", "WCAG 2.0 A", "WCAG 2.0 AA", "WCAG 2.1 A", "WCAG 2.1 AA",
    "WCAG 2.2 A", "WCAG 2.2 AA", "a", "b", "d", "fix", "h", "n/a", "u",
    "x", "y", "|", "<emdash>", "<arrow>">>

TokenRank(t) == IndexOf(TokenOrder, t)

RECURSIVE LexLess(_, _)
\* a < b on strings
LexLess(a, b) ==
  IF b = <<>> THEN FALSE
  ELSE IF a = <<>> THEN TRUE
  ELSE IF Head(a) = Head(b) THEN LexLess(Tail(a), Tail(b))
  ELSE TokenRank(Head(a)) < TokenRank(Head(b))

RECURSIVE Sorted(_)
\* sorted(S) of a set of strings
Sorted(S) ==
  IF S = {} THEN <<>>
  ELSE Bind(CHOOSE x \in S : \A y \in S \ {x} : LexLess(x, y),
            LAMBDA m : <<m>> \o Bind(S \ {m}, Sorted))

\* x or "n/a"
OrNA(text) == IF text = <<>> THEN <<"n/a">> ELSE text

\* --------------------------------------------------------- wcag_from_tags
Digits == {"0", "1", "2", "3", "4", "5", "6", "7", "8", "9"}

\* str.lower() on the tokens that have an upper-case form
LowerToken(t) ==
  CASE t = "WCAG" -> "wcag"
    [] t = "A" -> "a"
    [] OTHER -> t

Lower(text) == [i \in 1..Len(text) |-> LowerToken(text[i])]

\* line 311: the level tags, highest priority first
LevelKeys ==
  << <<"wcag", "2", "2", "a", "a">>, <<"wcag", "2", "2", "a">>,
     <<"wcag", "2", "1", "a", "a">>, <<"wcag", "2", "1", "a">>,
     <<"wcag", "2", "a", "a">>, <<"wcag", "2", "a">> >>

\* line 309
level_map(key) ==
  CASE key = <<"wcag", "2", "a">> -> <<"WCAG 2.0 A">>
    [] key = <<"wcag", "2", "a", "a">> -> <<"WCAG 2.0 AA">>
    [] key = <<"wcag", "2", "1", "a">> -> <<"WCAG 2.1 A">>
    [] key = <<"wcag", "2", "1", "a", "a">> -> <<"WCAG 2.1 AA">>
    [] key = <<"wcag", "2", "2", "a">> -> <<"WCAG 2.2 A">>
    [] OTHER -> <<"WCAG 2.2 AA">>

\* line 308
ParseTags(tags_str) ==
  LET raw == IF tags_str = NoText THEN <<>> ELSE tags_str
      parts == SelectSeq(SplitOn(raw, ";"), LAMBDA t : Strip(t) # <<>>)
  IN [i \in 1..Len(parts) |-> Lower(Strip(parts[i]))]

\* line 316: re.fullmatch(r'wcag(\d{3,4})', t)
IsCriterionTag(t) ==
  /\ Len(t) \in {4, 5}
  /\ t[1] = "wcag"
  /\ \A i \in 2..Len(t) : t[i] \in Digits

\* the level of the first level tag in list order, whatever its priority
LevelOfFirstListed(tags) ==
  LET hits == SelectSeq(tags, LAMBDA t : t \in Range(LevelKeys))
  IN IF hits = <<>> THEN <<>> ELSE level_map(hits[1])

\* lines 311-314
LevelOf(tags) ==
  LET hits == SelectSeq(LevelKeys, LAMBDA key : key \in Range(tags))
  IN IF hits = <<>> THEN <<>> ELSE level_map(hits[1])

\* lines 315-320
CriterionOf(tags) ==
  LET hits == SelectSeq(tags, IsCriterionTag)
  IN IF hits = <<>> THEN <<>>
     ELSE LET digits == Tail(hits[1])
          IN <<digits[1], ".", digits[2], ".">> \o SubSeq(digits, 3, Len(digits))

\* lines 307-321
wcag_from_tags(tags_str) ==
  [sc |-> CriterionOf(ParseTags(tags_str)),
   level |-> LevelOf(ParseTags(tags_str))]

\* ----------------------------------------------------- build_issue_fields
\* str.capitalize() of an impact label
Capitalize(impact) ==
  CASE impact = "minor" -> "Minor"
    [] impact = "moderate" -> "Moderate"
    [] impact = "serious" -> "Serious"
    [] impact = "critical" -> "Critical"
    [] OTHER -> "Bogus"

\* the non-empty values of one column (a set comprehension with a filter)
Column(records, f(_)) ==
  {f(records[i]) : i \in {j \in 1..Len(records) : f(records[j]) # <<>>}}

\* lines 57-59: " <emdash> ".join(filter(None, [desc, help_text]))
Combined(r) ==
  JoinWith(SelectSeq(<<r.description, r.help>>, LAMBDA x : x # <<>>),
           <<" ", "<emdash>", " ">>)

\* line 91
RelatedLine(url, lh) ==
  url \o <<" ", "<arrow>", " ", "Accessibility score:", " ">> \o lh.score_accessibility

\* a line for every page of the mapping, whatever the records
RelatedLines_AllSummaries(records, lh_by_url) ==
  LET pages == Sorted(DOMAIN lh_by_url)
  IN [i \in 1..Len(pages) |-> RelatedLine(pages[i], lh_by_url[pages[i]])]

\* lines 86-91: one line per record whose page has a summary
RelatedLines(records, lh_by_url) ==
  LET hits == SelectSeq(records, LAMBDA r : r.page_url \in DOMAIN lh_by_url)
  IN [i \in 1..Len(hits) |-> RelatedLine(hits[i].page_url, lh_by_url[hits[i].page_url])]

\* every field taken from the first record alone, nothing collected or sorted
build_issue_fields_of_first(violation_id, records, lh_by_url) ==
  LET keys == << <<"Success", "Criteria">>, <<"Success", "Criterion", "Level">>,
                 <<"Success", "Criteria", "Description">>, <<"Issue", "Description">>,
                 <<"Issue", "Long", "Description">>, <<"Pages", "Affected">>,
                 <<"Issue", "Code">>, <<"Issue", "Implications">>,
                 <<"Issue", "Solution">>, <<"Related", "Violations">> >>
  IN [i \in 1..Len(keys) |-> <<keys[i], OrNA(records[1].page_url)>>]

\* lines 42-105: the dict, as its (key, value) pairs in insertion order
build_issue_fields(violation_id, records, lh_by_url) ==
  LET wcag(r) == wcag_from_tags(r.tags)
      sc_set == Column(records, LAMBDA r : wcag(r).sc)
      level_set == Column(records, LAMBDA r : wcag(r).level)
      issue_description ==
        OrNA(JoinWith(Sorted(Column(records, Combined)), <<"\n", "\n">>))
      impacts == {<<Capitalize(records[i].impact)>> :
                    i \in {j \in 1..Len(records) : records[j].impact # ""}}
      related == RelatedLines(records, lh_by_url)
  IN << <<<<"Success", "Criteria">>,
          OrNA(JoinWith(Sorted(sc_set), <<",", " ">>))>>,
        <<<<"Success", "Criterion", "Level">>,
          OrNA(JoinWith(Sorted(level_set), <<",", " ">>))>>,
        <<<<"Success", "Criteria", "Description">>, issue_description>>,
        <<<<"Issue", "Description">>, issue_description>>,
        <<<<"Issue", "Long", "Description">>,
          OrNA(JoinWith(Sorted(Column(records, LAMBDA r : r.failure_summary)),
                        <<"\n", "\n">>))>>,
        <<<<"Pages", "Affected">>,
          OrNA(JoinWith(Sorted(Column(records, LAMBDA r : r.page_url)), <<"\n">>))>>,
        <<<<"Issue", "Code">>,
          OrNA(JoinWith(Sorted(Column(records, LAMBDA r : r.html)), <<"\n", "\n">>))>>,
        <<<<"Issue", "Implications">>,
          IF impacts # {}
            THEN <<"Impact: ">> \o JoinWith(Sorted(impacts), <<",", " ">>)
            ELSE <<"n/a">>>>,
        <<<<"Issue", "Solution">>,
          OrNA(JoinWith(Sorted(Column(records, LAMBDA r : r.help_url)), <<"\n">>))>>,
        <<<<"Related", "Violations">>,
          IF related # <<>> THEN JoinWith(related, <<"\n">>) ELSE <<"n/a">>>> >>

\* fields[name]
Field(fields, name) ==
  fields[CHOOSE i \in 1..Len(fields) : fields[i][1] = name][2]

\* ------------------------------------------------- placeholder substitution
RECURSIVE Replace(_, _, _)
\* str.replace(key, val) for a non-empty key: leftmost, non-overlapping
Replace(text, key, val) ==
  IF Len(text) < Len(key) THEN text
  ELSE IF SubSeq(text, 1, Len(key)) = key
    THEN val \o Bind(SubSeq(text, Len(key) + 1, Len(text)),
                     LAMBDA rest : Replace(rest, key, val))
    ELSE <<Head(text)>> \o Replace(Tail(text), key, val)

RECURSIVE ApplyRepl(_, _)
\* lines 296-298: every (key, value) of repl in turn, in dict order
ApplyRepl(text, repl) ==
  IF repl = <<>> THEN text
  ELSE Bind(Replace(text, repl[1][1], repl[1][2]),
            LAMBDA replaced : ApplyRepl(replaced, Tail(repl)))

replace_each_run(runs, repl) ==
  [i \in 1..Len(runs) |-> ApplyRepl(runs[i], repl)]

\* lines 291-304: a paragraph is the list of its runs' texts
replace_in_paragraph(runs, repl) ==
  LET full_text == Concat(runs)
      replaced == ApplyRepl(full_text, repl)
  IN IF replaced # full_text
       THEN [i \in 1..Len(runs) |-> IF i = 1 THEN replaced ELSE <<>>]
       ELSE runs

\* lines 286-289: the paragraphs of the cells of the rows of one table
ReplaceInTable(table, repl) ==
  [r \in 1..Len(table) |->
    [c \in 1..Len(table[r]) |->
      [k \in 1..Len(table[r][c]) |-> replace_in_paragraph(table[r][c][k], repl)]]]

\* lines 279-289
replace_all_text(doc, repl) ==
  [paragraphs |-> [i \in 1..Len(doc.paragraphs) |->
                     replace_in_paragraph(doc.paragraphs[i], repl)],
   tables |-> [t \in 1..Len(doc.tables) |-> ReplaceInTable(doc.tables[t], repl)]]

\* ------------------------------------------------------ report document
\* A document body is a sequence of elements: blocks of content, page
\* breaks, and the section properties (sectPr) a body ends with.
Element(kind, vid, records, content) ==
  [kind |-> kind, vid |-> vid, records |-> records, content |-> content]

EmptyDoc == [paragraphs |-> <<>>, tables |-> <<>>]

SectPr == Element("sectPr", "", <<>>, EmptyDoc)
PageBreak == Element("break", "", <<>>, EmptyDoc)

\* Document(): the library's default template, an empty body
NewDocument == <<SectPr>>

\* add_paragraph / add_heading / add_page_break: python-docx places new
\* block content before the body's first sectPr
AddBlock(body, el) ==
  IF \E i \in 1..Len(body) : body[i].kind = "sectPr"
    THEN LET k == CHOOSE i \in 1..Len(body) :
                    body[i].kind = "sectPr"
                    /\ \A j \in 1..(i - 1) : body[j].kind # "sectPr"
         IN SubSeq(body, 1, k - 1) \o <<el>> \o SubSeq(body, k, Len(body))
    ELSE Append(body, el)

\* --template: a paragraph whose placeholder is split over two runs, and a
\* table cell holding another placeholder
IssueTemplate ==
  [paragraphs |-> << << <<"Pages">>, <<"Affected">> >> >>,
   tables |-> << << << << << <<"Related", "Violations">> >> >> >> >> >>]

\* --front-matter: a cover paragraph with the report date placeholder
FrontDoc ==
  [paragraphs |-> << << <<"<<">>, <<"ReportDate">>, <<">>">> >> >>,
   tables |-> <<>>]

\* lines 371-375: Counter(...).items(), counted in first-seen order
Histogram(rows) ==
  LET labels == Dedupe([i \in 1..Len(rows) |-> <<rows[i].impact>>])
  IN [i \in 1..Len(labels) |->
        <<labels[i][1], "=",
          ToString(Cardinality({j \in 1..Len(rows) : rows[j].impact = labels[i][1]}))>>]

\* lines 361-390 (conclusion_text is None at the only call, line 445)
apply_front_matter(urls, rows, report_date) ==
  LET base == <<Element("front", "", <<>>,
                        replace_all_text(FrontDoc,
                          << << <<"<<", "ReportDate", ">>">>, report_date >> >>)),
                SectPr>>
      summary ==
        [paragraphs |->
           << << <<"URLs tested: ", ToString(Len(urls))>> >>,
              << <<"Total axe violation instances: ", ToString(Len(rows))>> >>,
              << IF rows # <<>>
                   THEN <<"Impact distribution: ">> \o JoinWith(Histogram(rows), <<",", " ">>)
                   ELSE <<"n/a">> >> >>,
         tables |-> <<>>]
      tested ==
        [paragraphs |-> [i \in 1..Len(urls) |-> << <<"* ">> \o urls[i] >>],
         tables |-> <<>>]
  IN AddBlock(AddBlock(base, Element("summary", "", <<>>, summary)),
              Element("urls", "", <<>>, tested))

\* lines 447-450: by_violation as its (key, records) pairs in insertion order
AddRowNewestFirst(groups, r) ==
  IF \E i \in 1..Len(groups) : groups[i][1] = r.violation_id
    THEN [i \in 1..Len(groups) |->
            IF groups[i][1] = r.violation_id
              THEN <<groups[i][1], Append(groups[i][2], r)>>
              ELSE groups[i]]
    ELSE <<<<r.violation_id, <<r>>>>>> \o groups

AddRow(groups, r) ==
  IF \E i \in 1..Len(groups) : groups[i][1] = r.violation_id
    THEN [i \in 1..Len(groups) |->
            IF groups[i][1] = r.violation_id
              THEN <<groups[i][1], Append(groups[i][2], r)>>
              ELSE groups[i]]
    ELSE Append(groups, <<r.violation_id, <<r>>>>)

RECURSIVE GroupInto(_, _)
GroupInto(groups, rows) ==
  IF rows = <<>> THEN groups
  ELSE Bind(AddRow(groups, Head(rows)), LAMBDA g : GroupInto(g, Tail(rows)))

by_violation(rows) == GroupInto(<<>>, rows)

RECURSIVE AppendSections(_, _, _)
\* lines 452-458: page break, fresh template, substitute, append its body
AppendSections(body, groups, lh) ==
  IF groups = <<>> THEN body
  ELSE LET vid == groups[1][1]
           records == groups[1][2]
           issue_doc == Bind(build_issue_fields(vid, records, lh),
                             LAMBDA fields : replace_all_text(IssueTemplate, fields))
       IN Bind(AddBlock(body, PageBreak)
                 \o <<Element("section", vid, records, issue_doc), SectPr>>,
               LAMBDA grown : AppendSections(grown, Tail(groups), lh))

\* lines 443-458: the document handed to doc.save
build_document(front_matter, urls, rows, lh, report_date) ==
  Bind(by_violation(rows),
       LAMBDA groups :
         AppendSections(
           IF front_matter THEN apply_front_matter(urls, rows, report_date)
                           ELSE NewDocument,
           groups, lh))

\* ================================================================ state
VARIABLES
  variant,     \* which run loop: "e2e", "runner" or "proto"; "none" otherwise
  args,        \* the command line (e2e) or the URL list handed in
  pc,          \* the position of the run
  urls,        \* the URL list being walked
  idx,         \* the position of the current loop in urls
  driver,      \* the browser session: "none", "open" or "closed"
  acquired,    \* how many sessions were started
  quits,       \* how many times quit was called
  attempted,   \* the URLs whose scan was issued, in order
  lateScan,    \* a scan was issued on a session that was not open
  axe_rows,    \* the Findings collected so far
  reports,     \* the per-URL files the prototype loops have written
  lh_by_url,   \* the Page Audit Summary mapping
  audited,     \* the URLs handed to Lighthouse, in order
  body,        \* the report document's body
  saved,       \* the report document was written
  error,       \* the exception that left the run, or "none"
  printed,     \* the lines printed
  input,       \* the arguments of the function under study
  output,      \* its result
  done         \* it has been applied

runVars ==
  <<variant, args, pc, urls, idx, driver, acquired, quits, attempted, lateScan,
    axe_rows, reports, lh_by_url, audited, body, saved, error, printed>>

callVars == <<input, output, done>>

vars == <<runVars, callVars>>

\* the empty mapping {}
NoSummaries == [u \in {} |-> [score_accessibility |-> <<>>]]

NoArgs ==
  [urls_arg |-> NoText, urls_json |-> JsonNone, file |-> NoText,
   axe |-> FALSE, lighthouse |-> FALSE, doc |-> FALSE, front_matter |-> FALSE,
   min_impact |-> None, urls |-> <<>>]

RunFresh ==
  /\ pc = "start" /\ urls = <<>> /\ idx = 1
  /\ driver = "none" /\ acquired = 0 /\ quits = 0
  /\ attempted = <<>> /\ lateScan = FALSE
  /\ axe_rows = <<>> /\ reports = <<>>
  /\ lh_by_url = NoSummaries /\ audited = <<>>
  /\ body = <<>> /\ saved = FALSE
  /\ error = "none" /\ printed = <<>>

NoRun == variant = "none" /\ args = NoArgs /\ RunFresh

NoCall == input = <<>> /\ output = <<>> /\ done = FALSE

\* ------------------------------------------------------- inputs of a run
UrlArgSamples ==
  {NoText, <<"a">>, <<"a", ",", " ", "b">>, <<"b", ",", "a", ",", "b">>}

JsonSamples ==
  {JsonNone, JsonInvalid, JsonNotArray, JsonArray(<<>>), JsonArray(<< <<"b">> >>)}

FileSamples == {NoText, << <<"#", "a", "\n">>, <<"\n">> >>}

\* what axe.run can return for a page
ScanSamples ==
  { <<>>,
    <<Violation("r1", "serious", 1), Violation("r2", "minor", 0)>>,
    <<Violation("r2", "critical", 2), Violation("r1", None, 0)>>,
    <<Violation("r1", "moderate", 2)>> }

\* the accessibility score of lh_summary_row, as printed
ScoreSamples == {<<"87">>}

E2EArgs ==
  {[urls_arg |-> ua, urls_json |-> uj, file |-> f,
    axe |-> ax, lighthouse |-> lh, doc |-> d, front_matter |-> fm,
    min_impact |-> mi, urls |-> <<>>] :
     ua \in UrlArgSamples, uj \in JsonSamples, f \in FileSamples,
     ax \in BOOLEAN, lh \in BOOLEAN, d \in BOOLEAN, fm \in BOOLEAN,
     mi \in {None, "serious"}}

\* selenium_runner.main(urls): any list of URLs, repeats included
RunnerArgs ==
  {[NoArgs EXCEPT !.urls = u] : u \in SeqsUpTo({<<"a">>, <<"b">>}, MaxUrls)}

\* main.py lines 58-61
ProtoUrls == << <<"a">>, <<"b">> >>

Init ==
  /\ \/ variant = "e2e" /\ args \in E2EArgs
     \/ variant = "runner" /\ args \in RunnerArgs
     \/ variant = "proto" /\ args = [NoArgs EXCEPT !.urls = ProtoUrls]
  /\ RunFresh
  /\ NoCall

\* --------------------------------------------- a11y_end_to_end.main steps
\* where the run goes once the axe loop is over (lines 434, 441, 463)
AfterAxe ==
  IF args.lighthouse THEN "lighthouse" ELSE IF args.doc THEN "doc" ELSE "finally"

\* where it goes once the Lighthouse loop is over (lines 441, 463)
AfterLighthouse == IF args.doc THEN "doc" ELSE "finally"

\* lines 415-426: parse the URL input; an error leaves main at once
MainParse ==
  /\ variant = "e2e" /\ pc = "start"
  /\ LET r == parse_urls(args.urls_arg, args.urls_json, args.file)
     IN IF r.error # "none"
          THEN /\ error' = r.error
               /\ pc' = "done"
               /\ UNCHANGED <<urls, printed>>
          ELSE IF r.urls = <<>>
            THEN /\ printed' = Append(printed, <<"No URLs provided">>)
                 /\ pc' = "done"
                 /\ UNCHANGED <<urls, error>>
            ELSE /\ urls' = r.urls
                 /\ printed' = Append(printed, <<"URLs to test", ToString(Len(r.urls))>>)
                 /\ pc' = IF args.axe THEN "driver" ELSE AfterAxe
                 /\ error' = error
  /\ UNCHANGED <<variant, args, idx, driver, acquired, quits, attempted, lateScan,
                 axe_rows, reports, lh_by_url, audited, body, saved>>
  /\ UNCHANGED callVars

\* line 427: get_driver, which may raise
MainGetDriver ==
  /\ variant = "e2e" /\ pc = "driver"
  /\ \/ /\ driver' = "open" /\ acquired' = acquired + 1
        /\ pc' = "scan" /\ error' = error
     \/ /\ error' = "WebDriverException" /\ pc' = "finally"
        /\ UNCHANGED <<driver, acquired>>
  /\ UNCHANGED <<variant, args, urls, idx, quits, attempted, lateScan,
                 axe_rows, reports, lh_by_url, audited, body, saved, printed>>
  /\ UNCHANGED callVars

\* lines 428-432: one turn of the axe loop; a raise leaves the try block
MainScan ==
  /\ variant = "e2e" /\ pc = "scan"
  /\ attempted' = Append(attempted, urls[idx])
  /\ lateScan' = (lateScan \/ driver # "open")
  /\ printed' = Append(printed, <<"[AXE] Scanning">> \o urls[idx])
  /\ \/ /\ error' = "ScanError" /\ pc' = "finally"
        /\ UNCHANGED <<axe_rows, idx>>
     \/ \E violations \in ScanSamples :
          /\ axe_rows' = axe_rows \o axe_to_rows(violations, urls[idx],
                                                 PageTitle(urls[idx]), args.min_impact)
          /\ idx' = IF idx = Len(urls) THEN 1 ELSE idx + 1
          /\ pc' = IF idx = Len(urls) THEN AfterAxe ELSE "scan"
          /\ error' = error
  /\ UNCHANGED <<variant, args, urls, driver, acquired, quits,
                 reports, lh_by_url, audited, body, saved>>
  /\ UNCHANGED callVars

\* lh_by_url[url] = row
WithSummary(lh, url, row) ==
  [u \in DOMAIN lh \cup {url} |-> IF u = url THEN row ELSE lh[u]]

\* lines 435-439: one turn of the Lighthouse loop
MainLighthouse ==
  /\ variant = "e2e" /\ pc = "lighthouse"
  /\ audited' = Append(audited, urls[idx])
  /\ printed' = Append(printed, <<"[LH] Auditing">> \o urls[idx])
  /\ \/ /\ error' = "LighthouseError" /\ pc' = "finally"
        /\ UNCHANGED <<lh_by_url, idx>>
     \/ /\ \/ lh_by_url' = lh_by_url
           \/ \E score \in ScoreSamples :
                lh_by_url' = WithSummary(lh_by_url, urls[idx],
                                         [score_accessibility |-> score])
        /\ idx' = IF idx = Len(urls) THEN 1 ELSE idx + 1
        /\ pc' = IF idx = Len(urls) THEN AfterLighthouse ELSE "lighthouse"
        /\ error' = error
  /\ UNCHANGED <<variant, args, urls, driver, acquired, quits, attempted, lateScan,
                 axe_rows, reports, body, saved>>
  /\ UNCHANGED callVars

\* --report-date, or today's date
ReportDate == <<"2026-11-04">>

\* lines 441-461: build the report and save it; the template, the front
\* matter or the save may raise
MainBuildDoc ==
  /\ variant = "e2e" /\ pc = "doc"
  /\ pc' = "finally"
  /\ \/ /\ error' = "TemplateError"
        /\ printed' = Append(printed, <<"[DOC] Building Word report">>)
        /\ UNCHANGED <<body, saved>>
     \/ /\ error' = "SaveError"
        /\ printed' = Append(printed, <<"[DOC] Building Word report">>)
        /\ saved' = saved
        /\ body' = build_document(args.front_matter, urls, axe_rows, lh_by_url, ReportDate)
     \/ /\ error' = error
        /\ printed' = Append(Append(printed, <<"[DOC] Building Word report">>),
                             <<"[DONE] Report written">>)
        /\ saved' = TRUE
        /\ body' = build_document(args.front_matter, urls, axe_rows, lh_by_url, ReportDate)
  /\ UNCHANGED <<variant, args, urls, idx, driver, acquired, quits, attempted,
                 lateScan, axe_rows, reports, lh_by_url, audited>>
  /\ UNCHANGED callVars

MainFinally_NoQuit ==
  /\ variant = "e2e" /\ pc = "finally"
  /\ pc' = "done"
  /\ UNCHANGED <<driver, quits>>
  /\ UNCHANGED <<variant, args, urls, idx, acquired, attempted, lateScan, axe_rows,
                 reports, lh_by_url, audited, body, saved, error, printed>>
  /\ UNCHANGED callVars

\* lines 463-465: the finally block; a pending exception then leaves main
MainFinally ==
  /\ variant = "e2e" /\ pc = "finally"
  /\ IF driver = "open"
       THEN driver' = "closed" /\ quits' = quits + 1
       ELSE UNCHANGED <<driver, quits>>
  /\ pc' = "done"
  /\ UNCHANGED <<variant, args, urls, idx, acquired, attempted, lateScan, axe_rows,
                 reports, lh_by_url, audited, body, saved, error, printed>>
  /\ UNCHANGED callVars

\* ------------------------------------------------------ the prototype loops
\* guidance.yaml: rule identifier -> remediation text
Guidance ==
  [id \in {"r1"} |-> [why_it_matters |-> <<"why">>, recommended_fix |-> <<"fix">>,
                      coaching_tip |-> <<"tip">>]]

\* main.py 42-48 (blank is None) and selenium_runner.py 34-40 (blank is "")
enrich_findings(findings, blank) ==
  [i \in 1..Len(findings) |->
     findings[i] @@
       (IF findings[i].rule_id \in DOMAIN Guidance
          THEN Guidance[findings[i].rule_id]
          ELSE [why_it_matters |-> blank, recommended_fix |-> blank,
                coaching_tip |-> blank])]

\* the files one URL leaves behind
Report(url, rows, complete) == [url |-> url, rows |-> rows, complete |-> complete]

\* selenium_runner.py 146-151
RunnerStart ==
  /\ variant = "runner" /\ pc = "start"
  /\ urls' = args.urls
  /\ \/ /\ driver' = "open" /\ acquired' = acquired + 1
        /\ pc' = IF args.urls = <<>> THEN "quit" ELSE "scan"
        /\ error' = error
     \/ /\ error' = "WebDriverException" /\ pc' = "done"
        /\ UNCHANGED <<driver, acquired>>
  /\ UNCHANGED <<variant, args, idx, quits, attempted, lateScan, axe_rows, reports,
                 lh_by_url, audited, body, saved, printed>>
  /\ UNCHANGED callVars

\* selenium_runner.py 152-156 with scan_url, 106-140: one turn of the loop.
\* The scan may raise before anything is written, or a later step (the
\* screenshot, the PDF) may raise once the CSV is on disk.
RunnerScan ==
  /\ variant = "runner" /\ pc = "scan"
  /\ attempted' = Append(attempted, urls[idx])
  /\ lateScan' = (lateScan \/ driver # "open")
  /\ \/ /\ printed' = Append(printed, <<"Error scanning">> \o urls[idx])
        /\ reports' = reports
     \/ \E violations \in ScanSamples, complete \in BOOLEAN :
          /\ printed' = Append(printed,
               IF complete THEN <<"Completed scan for">> \o urls[idx]
                           ELSE <<"Error scanning">> \o urls[idx])
          /\ reports' = Append(reports,
               Report(urls[idx], enrich_findings(runner_flatten_violations(violations), <<>>),
                      complete))
  /\ idx' = idx + 1
  /\ pc' = IF idx = Len(urls) THEN "quit" ELSE "scan"
  /\ UNCHANGED <<variant, args, urls, driver, acquired, quits, axe_rows,
                 lh_by_url, audited, body, saved, error>>
  /\ UNCHANGED callVars

\* selenium_runner.py 157-158
RunnerQuit ==
  /\ variant = "runner" /\ pc = "quit"
  /\ driver' = "closed" /\ quits' = quits + 1
  /\ printed' = Append(printed, <<"All Selenium scans completed successfully!">>)
  /\ pc' = "done"
  /\ UNCHANGED <<variant, args, urls, idx, acquired, attempted, lateScan, axe_rows,
                 reports, lh_by_url, audited, body, saved, error>>
  /\ UNCHANGED callVars

\* main.py 55-68
ProtoStart ==
  /\ variant = "proto" /\ pc = "start"
  /\ urls' = args.urls
  /\ \/ /\ driver' = "open" /\ acquired' = acquired + 1
        /\ pc' = "scan" /\ error' = error
     \/ /\ error' = "WebDriverException" /\ pc' = "done"
        /\ UNCHANGED <<driver, acquired>>
  /\ UNCHANGED <<variant, args, idx, quits, attempted, lateScan, axe_rows, reports,
                 lh_by_url, audited, body, saved, printed>>
  /\ UNCHANGED callVars

\* main.py 70-102: one turn of the loop
ProtoScan ==
  /\ variant = "proto" /\ pc = "scan"
  /\ attempted' = Append(attempted, urls[idx])
  /\ lateScan' = (lateScan \/ driver # "open")
  /\ \/ /\ printed' = Append(printed, <<"Error scanning">> \o urls[idx])
        /\ reports' = reports
     \/ \E violations \in ScanSamples, complete \in BOOLEAN :
          /\ printed' = Append(printed,
               IF complete THEN <<"Completed scan for">> \o urls[idx]
                           ELSE <<"Error scanning">> \o urls[idx])
          /\ reports' = Append(reports,
               Report(urls[idx], enrich_findings(flatten_violations(violations), NoText),
                      complete))
  /\ idx' = idx + 1
  /\ pc' = IF idx = Len(urls) THEN "quit" ELSE "scan"
  /\ UNCHANGED <<variant, args, urls, driver, acquired, quits, axe_rows,
                 lh_by_url, audited, body, saved, error>>
  /\ UNCHANGED callVars

\* main.py 104-105
ProtoQuit ==
  /\ variant = "proto" /\ pc = "quit"
  /\ driver' = "closed" /\ quits' = quits + 1
  /\ printed' = Append(printed, <<"All scans completed successfully!">>)
  /\ pc' = "done"
  /\ UNCHANGED <<variant, args, urls, idx, acquired, attempted, lateScan, axe_rows,
                 reports, lh_by_url, audited, body, saved, error>>
  /\ UNCHANGED callVars

Next ==
  \/ MainParse \/ MainGetDriver \/ MainScan \/ MainLighthouse
  \/ MainBuildDoc \/ MainFinally
  \/ RunnerStart \/ RunnerScan \/ RunnerQuit
  \/ ProtoStart \/ ProtoScan \/ ProtoQuit

Spec == Init /\ [][Next]_vars

\* the run is one sequential thread: it takes its next step whenever it has one
FairSpec == Spec /\ WF_vars(Next)

\* ================================================== the normalizers alone
\* the violation objects a page's scan result is drawn from
NormViolations ==
  {Violation("r1", impact, n) : impact \in ImpactValues, n \in 0..MaxNodes}
    \cup {Violation("r2", impact, 0) : impact \in ImpactValues}

\* one call of a normalizer: axe_to_rows under any threshold, or one of the
\* two flatten_violations, which take no threshold
InitNorm ==
  /\ NoRun
  /\ \E vs \in SeqsUpTo(NormViolations, MaxViolations) :
       \/ \E t \in Thresholds :
            input = [fn |-> "axe_to_rows", violations |-> vs, min_impact |-> t]
       \/ \E f \in {"main.flatten_violations", "runner.flatten_violations"} :
            input = [fn |-> f, violations |-> vs, min_impact |-> None]
  /\ output = <<>> /\ done = FALSE

CallAxeToRows ==
  /\ ~done /\ input.fn = "axe_to_rows"
  /\ output' = axe_to_rows(input.violations, <<"a">>, PageTitle(<<"a">>),
                           input.min_impact)
  /\ done' = TRUE
  /\ UNCHANGED <<input, runVars>>

CallFlattenMain ==
  /\ ~done /\ input.fn = "main.flatten_violations"
  /\ output' = flatten_violations(input.violations)
  /\ done' = TRUE
  /\ UNCHANGED <<input, runVars>>

CallFlattenRunner ==
  /\ ~done /\ input.fn = "runner.flatten_violations"
  /\ output' = runner_flatten_violations(input.violations)
  /\ done' = TRUE
  /\ UNCHANGED <<input, runVars>>

NextNorm == CallAxeToRows \/ CallFlattenMain \/ CallFlattenRunner

SpecNorm == InitNorm /\ [][NextNorm]_vars

\* ================================================ the substitution alone
\* lines 95-104: the keys of the dict build_issue_fields returns, in order
FieldNames ==
  << <<"Success", "Criteria">>, <<"Success", "Criterion", "Level">>,
     <<"Success", "Criteria", "Description">>, <<"Issue", "Description">>,
     <<"Issue", "Long", "Description">>, <<"Pages", "Affected">>,
     <<"Issue", "Code">>, <<"Issue", "Implications">>, <<"Issue", "Solution">>,
     <<"Related", "Violations">> >>

\* a Rule Aggregate whose ten values are plain, distinct texts
PlainFields ==
  [i \in 1..Len(FieldNames) |-> <<FieldNames[i], <<"value", ToString(i)>>>>]

\* a Rule Aggregate two of whose values quote a field name: the description
\* mentions IssueCode, the HTML snippet mentions SuccessCriteria
QuotingFields ==
  [i \in 1..Len(FieldNames) |->
     <<FieldNames[i],
       CASE i = 4 -> <<"see", "Issue", "Code">>
         [] i = 7 -> <<"<p>", "Success", "Criteria">>
         [] OTHER -> <<"value", ToString(i)>> >>]

\* what a template paragraph is written from: placeholders and other text
Placeholders ==
  {<<"Success", "Criteria">>, <<"Success", "Criteria", "Description">>,
   <<"Issue", "Description">>, <<"Issue", "Code">>}

Literals == {<<"x">>}

\* the runs of text cut after the positions cs (nondecreasing)
RunsAt(text, cs) ==
  [i \in 1..(Len(cs) + 1) |->
     SubSeq(text,
            IF i = 1 THEN 1 ELSE cs[i - 1] + 1,
            IF i = Len(cs) + 1 THEN Len(text) ELSE cs[i])]

\* every way Word may split a text into at most MaxRuns runs, empty runs too
RunSplits(text) ==
  {RunsAt(text, cs) :
     cs \in {c \in SeqsUpTo(0..Len(text), MaxRuns - 1) :
               \A i, j \in 1..Len(c) : i < j => c[i] <= c[j]}}

\* a document holding the paragraph in its body or in a table cell
DocWith(runs, where) ==
  IF where = "body"
    THEN [paragraphs |-> <<runs>>, tables |-> <<>>]
    ELSE [paragraphs |-> <<>>, tables |-> << << << <<runs>> >> >> >>]

InitRender ==
  /\ NoRun
  /\ \E segs \in SeqsUpTo(Placeholders \cup Literals, MaxSegs) :
       \E runs \in RunSplits(Concat(segs)) \cup (IF segs = <<>> THEN {<<>>} ELSE {}) :
         \E where \in {"body", "cell"}, repl \in {PlainFields, QuotingFields} :
           input = [segs |-> segs, runs |-> runs, where |-> where, repl |-> repl]
  /\ output = <<>> /\ done = FALSE

\* lines 454-456: substitute a rule's fields into a copy of the template
CallReplaceAllText ==
  /\ ~done
  /\ output' = replace_all_text(DocWith(input.runs, input.where), input.repl)
  /\ done' = TRUE
  /\ UNCHANGED <<input, runVars>>

NextRender == CallReplaceAllText

SpecRender == InitRender /\ [][NextRender]_vars

\* ================================================= the aggregation alone
\* the Findings axe_to_rows makes of rule r1 on the pages a and b
AggRows ==
  UNION {Range(axe_to_rows(<<Violation("r1", impact, MaxNodes)>>,
                           url, PageTitle(url), None)) :
           impact \in {"serious", "minor"}, url \in {<<"a">>, <<"b">>}}

\* the Page Audit Summaries main may hold: of some of the pages a, b and c
SummaryMaps ==
  UNION {[pages -> {[score_accessibility |-> score] : score \in ScoreSamples}] :
           pages \in SUBSET {<<"a">>, <<"b">>, <<"c">>}}

InitAgg ==
  /\ NoRun
  /\ \E records \in SeqsUpTo(AggRows, MaxRecords) \ {<<>>}, lh \in SummaryMaps :
       input = [records |-> records, lh_by_url |-> lh]
  /\ output = <<>> /\ done = FALSE

\* line 454: the fields of one rule's records
CallBuildIssueFields ==
  /\ ~done
  /\ output' = build_issue_fields(input.records[1].violation_id,
                                  input.records, input.lh_by_url)
  /\ done' = TRUE
  /\ UNCHANGED <<input, runVars>>

NextAgg == CallBuildIssueFields

SpecAgg == InitAgg /\ [][NextAgg]_vars

\* ======================================== the aggregation, applied twice
\* the orders a list of n records can be given in
Orders(n) ==
  {p \in [1..n -> 1..n] : \A i, j \in 1..n : i # j => p[i] # p[j]}

\* the same Findings in another order, or with Findings repeated
Rearranged(records) ==
  {[i \in 1..Len(records) |-> records[p[i]]] : p \in Orders(Len(records))}
    \cup {records \o <<records[i]>> : i \in 1..Len(records)}
    \cup {records \o records}

InitAggTwice ==
  /\ NoRun
  /\ \E records \in SeqsUpTo(AggRows, MaxRecords) \ {<<>>}, lh \in SummaryMaps :
       \E again \in Rearranged(records) :
         input = [records |-> records, again |-> again, lh_by_url |-> lh]
  /\ output = <<>> /\ done = FALSE

\* line 455, on the records as first given
CallOnRecords ==
  /\ ~done /\ output = <<>>
  /\ output' = <<build_issue_fields(input.records[1].violation_id,
                                    input.records, input.lh_by_url)>>
  /\ done' = FALSE
  /\ UNCHANGED <<input, runVars>>

\* line 455, on the rearranged records
CallOnRearranged ==
  /\ ~done /\ Len(output) = 1
  /\ output' = Append(output,
                      build_issue_fields(input.again[1].violation_id,
                                         input.again, input.lh_by_url))
  /\ done' = TRUE
  /\ UNCHANGED <<input, runVars>>

NextAggTwice == CallOnRecords \/ CallOnRearranged

SpecAggTwice == InitAggTwice /\ [][NextAggTwice]_vars

\* ================================================== the tag parsing alone
\* tags as axe sends them, and entries a tag list can hold besides: too few
\* or too many digits, upper case, surrounding blanks, nothing but a blank
TagSamples ==
  {<<"wcag", "2", "a">>, <<"wcag", "2", "a", "a">>, <<"wcag", "2", "1", "a">>,
   <<"wcag", "2", "2", "a", "a">>,
   <<"wcag", "1", "4", "3">>, <<"wcag", "1", "4", "1", "0">>,
   <<"wcag", "1", "4">>, <<"wcag", "1", "2", "3", "4", "5">>,
   <<"cat">>, <<" ">>,
   <<"WCAG", "1", "1", "1">>, <<" ", "wcag", "2", "1", "a", "a">>}

InitWcag ==
  /\ NoRun
  /\ \/ input = NoText
     \/ \E tags \in SeqsUpTo(TagSamples, MaxTags) : input = JoinWith(tags, <<";">>)
  /\ output = <<>> /\ done = FALSE

\* line 47
CallWcagFromTags ==
  /\ ~done /\ output = <<>>
  /\ output' = <<wcag_from_tags(input)>>
  /\ done' = FALSE
  /\ UNCHANGED <<input, runVars>>

\* lines 43-52, 94-96: the aggregate of one Finding that carries these tags
CallAggregateTags ==
  /\ ~done /\ Len(output) = 1
  /\ LET r == CHOOSE row \in AggRows : TRUE
     IN output' = Append(output,
                         build_issue_fields(r.violation_id,
                                            <<[r EXCEPT !.tags = input]>>,
                                            NoSummaries))
  /\ done' = TRUE
  /\ UNCHANGED <<input, runVars>>

NextWcag == CallWcagFromTags \/ CallAggregateTags

SpecWcag == InitWcag /\ [][NextWcag]_vars

\* ================================================= the URL parsing alone
\* sys.argv: --urls as characters, --urls-json as json.loads reads it,
\* --file as the lines of the file
UrlArgs == {NoText} \cup SeqsUpTo({"a", "b", " ", ","}, MaxArgLen)

JsonArgs ==
  {JsonNone, JsonInvalid, JsonNotArray}
    \cup {JsonArray(a) : a \in SeqsUpTo({<<" ", "b">>, <<" ">>}, MaxJsonLen)}

FileArgs ==
  {NoText}
    \cup SeqsUpTo({<<"a", "\n">>, <<"#", "a", "\n">>, <<"\n">>}, MaxFileLines)

InitUrls ==
  /\ NoRun
  /\ \E ua \in UrlArgs, uj \in JsonArgs, f \in FileArgs :
       input = [urls_arg |-> ua, urls_json |-> uj, file |-> f]
  /\ output = <<>> /\ done = FALSE

\* line 416
CallParseUrls ==
  /\ ~done
  /\ output' = parse_urls(input.urls_arg, input.urls_json, input.file)
  /\ done' = TRUE
  /\ UNCHANGED <<input, runVars>>

NextUrls == CallParseUrls

SpecUrls == InitUrls /\ [][NextUrls]_vars

\* =============================================================== claims
\* --------------------------------------------------------------------- C2
\* C2: a scan that raises for one URL is caught for that URL alone: once a
\* run that acquired the session is over, every URL of the list has had its
\* scan issued, no scan failure has left the run as an error, and the
\* consolidated pipeline has written the report it was asked for unless a
\* later step (Lighthouse, the document) failed.
C2_ScanFailureIsolated ==
  (pc = "done" /\ acquired = 1) =>
    /\ attempted = urls
    /\ error # "ScanError"
    /\ (variant = "e2e" /\ args.doc /\ error = "none" => saved)

\* --------------------------------------------------------------------- C3
SessionSafe ==
  /\ acquired <= 1
  /\ quits <= acquired
  /\ ~lateScan
  /\ (driver = "open" => acquired = 1 /\ quits = 0)
  /\ (driver = "closed" => acquired = 1 /\ quits = 1)
  /\ (pc = "done" /\ acquired = 1 => driver = "closed")

\* C3: a session is acquired at most once; once acquired it is eventually
\* closed by exactly one quit, whatever raised in between; and no scan is
\* issued once it is closed.
C3_SessionReleased ==
  /\ []SessionSafe
  /\ [][driver = "closed" => attempted' = attempted /\ driver' = "closed"]_vars
  /\ [](driver = "open" => <>(driver = "closed"))

\* C3 witness: a scan raised, a Lighthouse audit or the document raised, and
\* the session was closed all the same
C3_Witness ==
  /\ pc = "done" /\ driver = "closed" /\ quits = 1
  /\ error \in {"ScanError", "LighthouseError", "SaveError", "TemplateError"}
  /\ attempted # <<>>

\* --------------------------------------------------------------------- C5
Sections(b) == SelectSeq(b, LAMBDA el : el.kind = "section")

FirstRowOf(vid) ==
  CHOOSE k \in 1..Len(axe_rows) :
    /\ axe_rows[k].violation_id = vid
    /\ \A j \in 1..(k - 1) : axe_rows[j].violation_id # vid

\* C5: the report holds one section per distinct rule identifier of the
\* Findings, in the order the identifiers first occur; each section holds
\* exactly the Findings of its rule; front matter comes before every section.
C5_SectionsInFirstSeenOrder ==
  body # <<>> =>
    LET secs == Sections(body)
    IN /\ \A i, j \in 1..Len(secs) : i # j => secs[i].vid # secs[j].vid
       /\ {secs[i].vid : i \in 1..Len(secs)}
            = {axe_rows[k].violation_id : k \in 1..Len(axe_rows)}
       /\ \A i, j \in 1..Len(secs) :
            i < j => FirstRowOf(secs[i].vid) < FirstRowOf(secs[j].vid)
       /\ \A i \in 1..Len(secs) :
            secs[i].records
              = SelectSeq(axe_rows, LAMBDA r : r.violation_id = secs[i].vid)
       /\ \A i, j \in 1..Len(body) :
            body[i].kind \in {"front", "summary", "urls"} /\ body[j].kind = "section"
              => i < j

\* C5 witness: a saved report with front matter whose sections are r2 then r1
C5_Witness ==
  /\ saved /\ args.front_matter
  /\ Len(Sections(body)) = 2
  /\ Sections(body)[1].vid = "r2" /\ Sections(body)[2].vid = "r1"
  /\ Len(Sections(body)[2].records) > 1

\* -------------------------------------------------------------------- C10
Blank(text) == \A i \in 1..Len(text) : text[i] \in Whitespace

MalformedJson == args.urls_json.kind \in {"invalid", "notarray"}

\* no input names a URL
NoUrlGiven ==
  /\ args.urls_arg = NoText
       \/ \A i \in 1..Len(args.urls_arg) : args.urls_arg[i] \in Whitespace \cup {","}
  /\ \A i \in 1..Len(args.urls_json.arr) : Blank(args.urls_json.arr[i])
  /\ args.file = NoText
       \/ \A i \in 1..Len(args.file) :
            Blank(args.file[i]) \/ Head(LStrip(args.file[i])) = "#"

NothingStarted ==
  /\ acquired = 0 /\ driver = "none"
  /\ attempted = <<>> /\ audited = <<>>
  /\ body = <<>> /\ ~saved

\* C10: with malformed --urls-json the run ends with the ValueError, and with
\* no URL given it ends with the message and no error; either way before the
\* session is acquired, before any scan or audit, and with no document.
C10_BadUrlInputStopsEarly ==
  variant = "e2e" =>
    /\ MalformedJson =>
         /\ NothingStarted
         /\ pc \in {"start", "done"}
         /\ (pc = "done" => error = "ValueError" /\ printed = <<>>)
    /\ (~MalformedJson /\ NoUrlGiven) =>
         /\ NothingStarted
         /\ pc \in {"start", "done"}
         /\ (pc = "done" => error = "none" /\ printed = << <<"No URLs provided">> >>)

\* C10 witness: URLs in the comma list, axe and the report asked for, but
\* --urls-json is malformed
C10_Witness ==
  /\ variant = "e2e" /\ pc = "done" /\ error = "ValueError"
  /\ args.urls_json = JsonInvalid
  /\ Truthy(args.urls_arg) /\ args.axe /\ args.doc

\* the other case of C10: no URL given, the message printed
C10_WitnessEmpty ==
  /\ variant = "e2e" /\ pc = "done" /\ error = "none"
  /\ NoUrlGiven /\ args.file # NoText /\ args.axe
  /\ printed = << <<"No URLs provided">> >>

\* --------------------------------------------------------------------- C1
\* the columns of a row, whichever normalizer made it
RowRule(row) == IF input.fn = "axe_to_rows" THEN row.violation_id ELSE row.rule_id

RowImpact(row) ==
  IF input.fn = "axe_to_rows"
    THEN (IF row.impact = "" THEN None ELSE row.impact)
    ELSE row.impact

RowHasNoNode(row) ==
  /\ row.target = <<>> /\ row.html = <<>>
  /\ IF input.fn = "axe_to_rows" THEN row.failure_summary = <<>>
                                 ELSE row.failureSummary = <<>>

\* the violations of the input with this rule and impact
Alike(id, impact) ==
  SelectSeq(input.violations, LAMBDA v : v.id = id /\ v.impact = impact)

RowsAlike(id, impact) ==
  SelectSeq(output, LAMBDA row : RowRule(row) = id /\ RowImpact(row) = impact)

RECURSIVE FindingsDue(_)
\* N Findings for a violation with N > 0 nodes, one for a violation with none
FindingsDue(vs) ==
  IF vs = <<>> THEN 0
  ELSE (IF Len(Head(vs).nodes) = 0 THEN 1 ELSE Len(Head(vs).nodes))
         + FindingsDue(Tail(vs))

NodeCountsKept ==
  \A id \in Rules, impact \in ImpactValues :
    /\ Len(RowsAlike(id, impact)) = FindingsDue(Alike(id, impact))
    /\ Len(SelectSeq(RowsAlike(id, impact), RowHasNoNode))
         >= Len(SelectSeq(Alike(id, impact), LAMBDA v : v.nodes = <<>>))

\* C1: with no threshold, every normalizer gives N Findings for a violation
\* with N > 0 nodes and one Finding, with empty node fields, for a violation
\* with no node.
C1_EveryNormalizerKeepsCounts ==
  (done /\ input.min_impact \in {None, ""}) => NodeCountsKept

\* what holds of C1: the same, of axe_to_rows alone
C1_AxeToRowsKeepsCounts ==
  (done /\ input.fn = "axe_to_rows" /\ input.min_impact \in {None, ""})
    => NodeCountsKept

\* --------------------------------------------------------------------- C4
ImpactLevel(impact) ==
  CASE impact = "minor" -> 1
    [] impact = "moderate" -> 2
    [] impact = "serious" -> 3
    [] impact = "critical" -> 4
    [] OTHER -> 0

\* C4: under a threshold t of the four labels axe_to_rows returns no Finding
\* below t and every Finding of every violation at or above t; with no
\* threshold (None or empty) it drops no violation's Findings.
C4_ThresholdFilter ==
  (done /\ input.fn = "axe_to_rows") =>
    /\ ImpactLevel(input.min_impact) > 0 =>
         /\ \A i \in 1..Len(output) :
              ImpactLevel(output[i].impact) >= ImpactLevel(input.min_impact)
         /\ \A id \in Rules, impact \in ImpactValues :
              ImpactLevel(impact) >= ImpactLevel(input.min_impact)
                => Len(RowsAlike(id, impact)) = FindingsDue(Alike(id, impact))
    /\ input.min_impact \in {None, ""} =>
         \A id \in Rules, impact \in ImpactValues :
           Len(RowsAlike(id, impact)) = FindingsDue(Alike(id, impact))

\* C4 witness: under the threshold serious, one violation at the threshold
\* was kept and one below it was dropped
C4_Witness ==
  /\ done /\ input.fn = "axe_to_rows" /\ input.min_impact = "serious"
  /\ Len(input.violations) = 2
  /\ input.violations[1].impact = "moderate" /\ Len(input.violations[1].nodes) = 2
  /\ input.violations[2].impact = "serious" /\ Len(input.violations[2].nodes) = 0
  /\ Len(output) = 1

\* --------------------------------------------------------------------- C6
\* the paragraph's runs once substituted, wherever the paragraph sits
RunsAfter ==
  IF input.where = "body" THEN output.paragraphs[1] ELSE output.tables[1][1][1][1]

ValueOf(repl, name) ==
  repl[CHOOSE i \in 1..Len(repl) : repl[i][1] = name][2]

\* each placeholder replaced by its own field's value, other text kept
EachReplacedByItsOwn(segs, repl) ==
  Concat([i \in 1..Len(segs) |->
            IF segs[i] \in Placeholders THEN ValueOf(repl, segs[i]) ELSE segs[i]])

\* C6: a rendered section shows, for every placeholder, the value of the
\* field of exactly that name, whatever the order of the keys and whatever
\* the other values are; inserted values are not substituted again.
C6_EachPlaceholderItsOwnValue ==
  done => Concat(RunsAfter) = EachReplacedByItsOwn(input.segs, input.repl)

\* --------------------------------------------------------------------- C7
Occurs(key, text) ==
  \E i \in 1..(Len(text) - Len(key) + 1) : SubSeq(text, i, i + Len(key) - 1) = key

KeysOf(repl) == {repl[i][1] : i \in 1..Len(repl)}

NoTokenRemains(repl, text) == \A key \in KeysOf(repl) : ~Occurs(key, text)

\* no inserted value holds a word of a placeholder name
ValuesQuoteNoKey(repl) ==
  \A i \in 1..Len(repl) :
    Range(repl[i][2]) \cap UNION {Range(key) : key \in KeysOf(repl)} = {}

MergedInFirstRun ==
  LET before == Concat(input.runs)
      after == Concat(RunsAfter)
  IN /\ Len(RunsAfter) = Len(input.runs)
     /\ after = ApplyRepl(before, input.repl)
     /\ after # before =>
          /\ RunsAfter[1] = after
          /\ \A i \in 2..Len(RunsAfter) : RunsAfter[i] = <<>>
     /\ after = before => RunsAfter = input.runs

\* C7 as stated: the runs' concatenation is the substitution of the original
\* concatenation and no known placeholder token remains; a changed text sits
\* in the first run, the others empty; an unchanged paragraph keeps its runs.
C7_MergedAndNoTokenLeft ==
  done => MergedInFirstRun /\ NoTokenRemains(input.repl, Concat(RunsAfter))

\* C7 amended: the same, with a placeholder token left only where an
\* inserted value quotes a placeholder name.
C7_MergedAcrossRuns ==
  done =>
    /\ MergedInFirstRun
    /\ ValuesQuoteNoKey(input.repl) => NoTokenRemains(input.repl, Concat(RunsAfter))

\* C7 witness: a placeholder split over three runs of a table cell's
\* paragraph was replaced, the result in the first run
C7_Witness ==
  /\ done /\ input.where = "cell" /\ input.repl = PlainFields
  /\ input.runs = << <<"x", "Issue">>, <<>>, <<"Code">> >>
  /\ RunsAfter = << <<"x", "value", "7">>, <<>>, <<>> >>

\* --------------------------------------------------------------------- C8
\* one line per distinct affected page that has a summary, in first-seen order
RelatedLinesPerPage(records, summaries) ==
  LET pages == Dedupe([i \in 1..Len(records) |-> records[i].page_url])
      hits == SelectSeq(pages, LAMBDA u : u \in DOMAIN summaries)
  IN [i \in 1..Len(hits) |-> RelatedLine(hits[i], summaries[hits[i]])]

\* C8: RelatedViolations holds exactly one line per distinct affected page
\* that has a Page Audit Summary, none for a page without one, and is "n/a"
\* when no affected page has a summary.
C8_OneLinePerPage ==
  done =>
    Field(output, <<"Related", "Violations">>) =
      (IF RelatedLinesPerPage(input.records, input.lh_by_url) = <<>>
         THEN <<"n/a">>
         ELSE JoinWith(RelatedLinesPerPage(input.records, input.lh_by_url), <<"\n">>))

\* --------------------------------------------------------------------- C9
\* the trimmed, non-empty entries of the three inputs, in the order comma
\* list, JSON array, file lines; comments tells whether "#" lines count
Entries(in, comments) ==
  LET parts == IF Truthy(in.urls_arg) THEN SplitOn(in.urls_arg, ",") ELSE <<>>
      lines == IF in.file = NoText THEN <<>> ELSE in.file
      kept == SelectSeq(lines, LAMBDA l : comments \/ Head(Strip(l) \o <<"">>) # "#")
      all == parts \o in.urls_json.arr \o kept
  IN SelectSeq([i \in 1..Len(all) |-> Strip(all[i])], LAMBDA u : u # <<>>)

DistinctInFirstSeenOrder(out, entries) ==
  /\ \A i, j \in 1..Len(out) : i # j => out[i] # out[j]
  /\ Range(out) = Range(entries)
  /\ \A i, j \in 1..Len(out) :
       i < j => IndexOf(entries, out[i]) < IndexOf(entries, out[j])
  /\ Dedupe(out) = out

\* C9 as stated: the list has no duplicates, holds exactly the distinct
\* trimmed non-empty entries of the inputs in first-occurrence order (comma
\* list, JSON array, file lines), and de-duplicating it again changes nothing.
C9_DistinctUrlsOfInputs ==
  done /\ output.error = "none" =>
    DistinctInFirstSeenOrder(output.urls, Entries(input, TRUE))

\* C9 amended: the same, the file's lines that start with "#" once trimmed
\* left out.
C9_DistinctUrlsSkippingComments ==
  done /\ output.error = "none" =>
    DistinctInFirstSeenOrder(output.urls, Entries(input, FALSE))

\* C9 witness: repeats within and across the three inputs, one list
C9_Witness ==
  /\ done
  /\ input.urls_arg = <<"b", ",", "a">>
  /\ input.urls_json = JsonArray(<< <<" ", "b">>, <<" ">> >>)
  /\ input.file = << <<"#", "a", "\n">>, <<"a", "\n">> >>
  /\ output = [error |-> "none", urls |-> << <<"b">>, <<"a">> >>]

\* -------------------------------------------------------------------- C11
\* the nine fields built from a set and sorted
SortedFieldNames ==
  {FieldNames[i] : i \in 1..Len(FieldNames)} \ {<<"Related", "Violations">>}

LinesOf(text) == Range(SplitOn(text, "\n"))

\* C11 as stated: all ten field values are the same for every permutation of
\* the Findings of a rule, and repeated Findings change no field value.
C11_AllFieldsOrderIndependent ==
  done => output[1] = output[2]

\* C11 amended: the nine fields built from a set and sorted are the same for
\* every permutation and with Findings repeated; RelatedViolations is not
\* order-independent: it holds the same set of lines, in the Findings' order.
C11_SortedFieldsOrderIndependent ==
  done =>
    /\ \A name \in SortedFieldNames : Field(output[1], name) = Field(output[2], name)
    /\ LinesOf(Field(output[1], <<"Related", "Violations">>))
         = LinesOf(Field(output[2], <<"Related", "Violations">>))

\* C11 witness: Findings on the pages b and a, then the same two reversed,
\* both pages with a summary: PagesAffected is a then b both times
C11_Witness ==
  /\ done
  /\ Len(input.records) = 2 /\ Len(input.again) = 2
  /\ input.records[1].page_url = <<"b">> /\ input.records[2].page_url = <<"a">>
  /\ input.again = <<input.records[2], input.records[1]>>
  /\ DOMAIN input.lh_by_url = {<<"a">>, <<"b">>}
  /\ Field(output[1], <<"Pages", "Affected">>) = <<"a", "\n", "b">>
  /\ Field(output[2], <<"Pages", "Affected">>) = <<"a", "\n", "b">>
  /\ Field(output[1], <<"Related", "Violations">>)
       # Field(output[2], <<"Related", "Violations">>)

\* -------------------------------------------------------------------- C12
\* the pages a rendered section lists as affected, and those of its
\* RelatedViolations lines
PagesListed(sec) == LinesOf(Concat(sec.content.paragraphs[1]))

RelatedPages(sec) ==
  {SplitOn(line, " ")[1] :
     line \in LinesOf(Concat(sec.content.tables[1][1][1][1])) \ {<<"n/a">>}}

\* the pages of the Findings of a rule
PagesOfRule(vid) ==
  {axe_rows[k].page_url : k \in {j \in 1..Len(axe_rows) : axe_rows[j].violation_id = vid}}

\* C12: in every run, the pages a rule's aggregate names in PagesAffected are
\* exactly the pages of that rule's Findings, and every page of a
\* RelatedViolations line is one of them: never a page without a Finding of
\* the rule, never a page known only to the Page Audit Summary mapping.
C12_PagesComeFromFindings ==
  \A i \in 1..Len(Sections(body)) :
    LET sec == Sections(body)[i]
    IN /\ PagesListed(sec) = PagesOfRule(sec.vid)
       /\ RelatedPages(sec) \subseteq PagesOfRule(sec.vid)

\* C12 witness: pages a and b were both scanned and both have a summary, rule
\* r1 was found on a alone, and its section names a and not b
C12_Witness ==
  /\ saved
  /\ {<<"a">>, <<"b">>} \subseteq Range(attempted)
  /\ {<<"a">>, <<"b">>} \subseteq DOMAIN lh_by_url
  /\ \E i \in 1..Len(Sections(body)) :
       /\ Sections(body)[i].vid = "r1"
       /\ PagesOfRule("r1") = {<<"a">>}
       /\ PagesListed(Sections(body)[i]) = {<<"a">>}
       /\ RelatedPages(Sections(body)[i]) = {<<"a">>}

\* -------------------------------------------------------------------- C13
Labels == {"minor", "moderate", "serious", "critical"}

RECURSIVE AllFindings(_)
\* the Findings of every violation of the list, none dropped
AllFindings(vs) ==
  IF vs = <<>> THEN <<>>
  ELSE RowsOfViolation(Head(vs), <<"a">>, PageTitle(<<"a">>)) \o AllFindings(Tail(vs))

\* C13: under any configured threshold a violation whose impact is missing
\* or not one of the four labels gives no Finding; with no threshold every
\* violation gives its Findings unchanged, the impact as given or empty when
\* missing; under a threshold of the four labels a violation carrying a label
\* is dropped only when strictly below the threshold.
C13_UnknownImpactDropped ==
  (done /\ input.fn = "axe_to_rows") =>
    /\ input.min_impact \notin {None, ""} =>
         \A id \in Rules, impact \in ImpactValues \ Labels :
           RowsAlike(id, impact) = <<>>
    /\ input.min_impact \in {None, ""} =>
         /\ output = AllFindings(input.violations)
         /\ \A id \in Rules, impact \in ImpactValues \ Labels :
              Len(RowsAlike(id, impact)) = FindingsDue(Alike(id, impact))
    /\ input.min_impact \in Labels =>
         \A id \in Rules, impact \in Labels :
           Len(RowsAlike(id, impact)) =
             (IF ImpactLevel(impact) < ImpactLevel(input.min_impact)
                THEN 0 ELSE FindingsDue(Alike(id, impact)))

\* C13 witness: under the lowest threshold, minor, a violation without an
\* impact was dropped with its nodes and the minor one was kept
C13_Witness ==
  /\ done /\ input.fn = "axe_to_rows" /\ input.min_impact = "minor"
  /\ Len(input.violations) = 2
  /\ input.violations[1].impact = None /\ Len(input.violations[1].nodes) = 2
  /\ input.violations[2].impact = "minor" /\ Len(input.violations[2].nodes) = 1
  /\ Len(output) = 1 /\ output[1].impact = "minor"

\* -------------------------------------------------------------------- C14
\* the non-blank entries of the tag list; normal tells whether an entry is
\* trimmed and lower-cased before it is matched
TagEntries(tags_str, normal) ==
  LET raw == IF tags_str = NoText THEN <<>> ELSE tags_str
      parts == SelectSeq(SplitOn(raw, ";"), LAMBDA t : Strip(t) # <<>>)
  IN [i \in 1..Len(parts) |-> IF normal THEN Lower(Strip(parts[i])) ELSE parts[i]]

\* the label of the highest-priority level tag among the entries
HighestLevel(entries) ==
  IF \E k \in 1..Len(LevelKeys) : LevelKeys[k] \in Range(entries)
    THEN level_map(LevelKeys[CHOOSE k \in 1..Len(LevelKeys) :
                               /\ LevelKeys[k] \in Range(entries)
                               /\ \A j \in 1..(k - 1) : LevelKeys[j] \notin Range(entries)])
    ELSE <<>>

WcagAndDigits(t) ==
  /\ Len(t) \in {4, 5} /\ t[1] = "wcag"
  /\ \A i \in 2..Len(t) : t[i] \in Digits

\* the first entry that is wcag and 3 or 4 digits, as d.d.rest
FirstCriterion(entries) ==
  IF \E i \in 1..Len(entries) : WcagAndDigits(entries[i])
    THEN LET t == entries[CHOOSE i \in 1..Len(entries) :
                            /\ WcagAndDigits(entries[i])
                            /\ \A j \in 1..(i - 1) : ~WcagAndDigits(entries[j])]
         IN <<t[2], ".", t[3], ".">> \o SubSeq(t, 4, Len(t))
    ELSE <<>>

WcagAsExpected(entries) ==
  /\ output[1].level = HighestLevel(entries)
  /\ output[1].sc = FirstCriterion(entries)
  /\ \A k \in 1..Len(LevelKeys) :
       output[1].sc # <<LevelKeys[k][2], ".", LevelKeys[k][3], ".">>
                        \o SubSeq(LevelKeys[k], 4, Len(LevelKeys[k]))
  /\ Field(output[2], <<"Success", "Criteria">>) = OrNA(output[1].sc)
  /\ Field(output[2], <<"Success", "Criterion", "Level">>) = OrNA(output[1].level)

\* C14 as stated: the level is that of the highest-priority level tag of the
\* list, wherever it stands, or empty; the criterion is the first tag that is
\* exactly wcag and 3 or 4 digits, as d.d.rest, or empty; a level tag is never
\* taken for a criterion; an empty result is "n/a" in the aggregate.
C14_LevelAndCriterionOfTags ==
  done => WcagAsExpected(TagEntries(input, FALSE))

\* C14 amended: the same, of the tags once trimmed and lower-cased.
C14_LevelAndCriterionOfNormalTags ==
  done => WcagAsExpected(TagEntries(input, TRUE))

\* C14 witness: the lowest level first, a criterion, the highest level last
C14_Witness ==
  /\ done
  /\ input = <<"wcag", "2", "a", ";", "wcag", "1", "4", "3", ";",
               "wcag", "2", "2", "a", "a">>
  /\ output[1] = [sc |-> <<"1", ".", "4", ".", "3">>, level |-> <<"WCAG 2.2 AA">>]
  /\ Field(output[2], <<"Success", "Criteria">>) = <<"1", ".", "4", ".", "3">>

====
